---- MODULE Spec2Model ----
(***************************************************************************)
(* Model of server/app/__init__.py of the selfserve portal: the start-up   *)
(* HTML compilation (compile_html), the registration of the background     *)
(* tasks (load_endpoints), the static file route (static_files) and the    *)
(* shutdown hook (shutdown).                                               *)
(*                                                                         *)
(* Text is a sequence of atoms.  An atom is a string that stands for a     *)
(* run of characters the code never splits: the attribute opener src=",    *)
(* a name, the extension .js, the closing quote, a line break, the         *)
(* placeholder {contents} and pieces of markup.  A file name is a sequence *)
(* of atoms (<<"a", ".js">>), a path a sequence of file names.             *)
(***************************************************************************)
EXTENDS Integers, Sequences, FiniteSets, TLC

VARIABLES
    files,             \* the regular files on disk: path -> content
    dirs,              \* the directories on disk
    phase,             \* where the hosting server is in its lifecycle
    master_template,   \* compile_html's local: the template being stamped
    todo,              \* compile_html's loop: .html files still to compile
    written,           \* names written to COMPILED_DIR in the current pass
    startups,          \* number of start-up passes begun
    hook,              \* index of the before_serving function that runs
    pc,                \* compile_html's position: "read", "mkdir", "loop"
    error,             \* the exception that left a before_serving function
    tasks,             \* every asyncio task created by add_background_task
    background_tasks,  \* app.background_tasks: indices into tasks
    response           \* body of the last response of static_files

vars == <<files, dirs, phase, master_template, todo, written, startups,
          hook, pc, error, tasks, background_tasks, response>>

-----------------------------------------------------------------------------
(* Bounds of the model *)

\* most items (tags, line breaks, placeholders) in a master template
MaxItems == 3
\* most start-up passes the hosting server runs on one app object
MaxStartups == 2
\* most handler invocations followed per background task
MaxInvocations == 3

-----------------------------------------------------------------------------
(* Atoms *)

SrcOpen == "src=\""
Quote == "\""
DotJs == ".js"
DotHtml == ".html"
Newline == "\n"
Placeholder == "{contents}"
IntegrityOpen == " integrity=\""

-----------------------------------------------------------------------------
(* Paths: lines 27-29 *)

\* os.path.join(dir, name)
Join(dir, name) == Append(dir, name)

STATIC_DIR == <<<<"htdocs">>>>
TEMPLATES_DIR == Join(STATIC_DIR, <<"templates">>)
CompiledInStatic == STATIC_DIR
COMPILED_DIR == Join(STATIC_DIR, <<"compiled">>)

MasterName == <<"master", DotHtml>>

DirOf(path) == SubSeq(path, 1, Len(path) - 1)
BaseOf(path) == path[Len(path)]

\* os.path.isfile, os.path.isdir, os.listdir
IsFile(path) == path \in DOMAIN files
IsDir(path) == path \in dirs
ListDir(dir) ==
    {BaseOf(p) : p \in {q \in (DOMAIN files) \cup dirs : Len(q) > 0 /\ DirOf(q) = dir}}

\* str.endswith
EndsWith(name, suffix) == Len(name) > 0 /\ name[Len(name)] = suffix

\* open(path, "w").write(data)
WriteFile(fs, path, data) ==
    [p \in (DOMAIN fs) \cup {path} |-> IF p = path THEN data ELSE fs[p]]

-----------------------------------------------------------------------------
(* file_to_sri: lines 32-37 *)

\* base64(sha384(bytes)): the digest is a function of the bytes alone and
\* distinct bytes have distinct digests
RECURSIVE B64Sha384(_)
B64Sha384(bytes) ==
    IF bytes = <<>> THEN "=" ELSE bytes[1] \o "+" \o B64Sha384(Tail(bytes))

file_to_sri(filepath) == "sha384-" \o B64Sha384(files[filepath])

-----------------------------------------------------------------------------
(* Strings *)

\* s[i..] starts with pre
StartsWithAt(s, i, pre) ==
    /\ i + Len(pre) - 1 <= Len(s)
    /\ \A k \in 1..Len(pre) : s[i + k - 1] = pre[k]

\* str.replace(old, new): every non-overlapping occurrence, left to right;
\* replaced text is not scanned again
RECURSIVE ReplaceFrom(_, _, _, _)
ReplaceFrom(s, i, old, new) ==
    IF i > Len(s) THEN <<>>
    ELSE IF StartsWithAt(s, i, old)
         THEN new \o ReplaceFrom(s, i + Len(old), old, new)
         ELSE <<s[i]>> \o ReplaceFrom(s, i + 1, old, new)

Replace(s, old, new) == ReplaceFrom(s, 1, old, new)

\* str.lstrip("/")
RECURSIVE LStripSlash(_)
LStripSlash(s) ==
    IF s # <<>> /\ s[1] = "/" THEN LStripSlash(Tail(s)) ELSE s

-----------------------------------------------------------------------------
(* The regular expression of line 61: (src="(.+?\.js)") *)

\* the end of the match that starts at i: the .js atom of the first .js"
\* that follows at least one character, none of them a line break
\* ('.' matches anything but a line break, quotes included); 0 if none
MatchEnd(s, i) ==
    LET ends == {j \in (i + 2)..(Len(s) - 1) :
                    /\ s[j] = DotJs
                    /\ s[j + 1] = Quote
                    /\ \A k \in (i + 1)..(j - 1) : s[k] # Newline}
    IN  IF s[i] = SrcOpen /\ ends # {}
        THEN CHOOSE j \in ends : \A k \in ends : j <= k
        ELSE 0

\* re.finditer: the non-overlapping matches from position i on, leftmost
\* first; a match is [first, last] with group(1) = s[first..last] and
\* group(2) = s[first+1..last-1]
RECURSIVE FindIter(_, _)
FindIter(s, i) ==
    IF i > Len(s) THEN <<>>
    ELSE IF MatchEnd(s, i) # 0
         THEN <<[first |-> i, last |-> MatchEnd(s, i) + 1]>>
                  \o FindIter(s, MatchEnd(s, i) + 2)
         ELSE FindIter(s, i + 1)

Group1(s, m) == SubSeq(s, m.first, m.last)
Group2(s, m) == SubSeq(s, m.first + 1, m.last - 1)

-----------------------------------------------------------------------------
(* The hooks: lines 56, 78 and 91 *)

\* app.before_serving_funcs, in the order the decorators ran
LoadBeforeCompile == <<"load_endpoints", "compile_html">>
BeforeServing == <<"compile_html", "load_endpoints">>

-----------------------------------------------------------------------------
(* compile_html: lines 56-76 *)

\* lines 62-68: one iteration of the loop over the matches
StampOne(template, orig, m) ==
    LET script_name == LStripSlash(Group2(orig, m))
        script_path == Join(STATIC_DIR, script_name)
        orig_src == Group1(orig, m)
        new_src == orig_src \o <<IntegrityOpen, file_to_sri(script_path), Quote>>
    IN  IF IsFile(script_path)
        THEN Replace(template, orig_src, new_src)
        ELSE template

\* lines 61-68: the loop; the matches are those of the template as read
RECURSIVE StampFrom(_, _, _, _)
StampFrom(template, orig, matches, n) ==
    IF n > Len(matches) THEN template
    ELSE StampFrom(StampOne(template, orig, matches[n]), orig, matches, n + 1)

StampScripts(orig) == StampFrom(orig, orig, FindIter(orig, 1), 1)

\* line 72: the files to compile
HtmlFilesOfCompiled(dir) ==
    {filename \in ListDir(COMPILED_DIR) : EndsWith(filename, DotHtml)}
HtmlFiles(dir) == {filename \in ListDir(dir) : EndsWith(filename, DotHtml)}

\* line 75: the page of one fragment
Substitute(template, htmldata) == Replace(template, <<Placeholder>>, htmldata)

\* line 75 binds output and leaves master_template as it is
TemplateReassigned(template, output) == output
TemplateAfterPage(template, output) == template

\* open(path).read(): the data, or the exception open raises
OpenLenient(path) ==
    [ok |-> TRUE, data |-> IF IsFile(path) THEN files[path] ELSE <<>>]
Open(path) ==
    IF IsFile(path) THEN [ok |-> TRUE, data |-> files[path]]
    ELSE [ok |-> FALSE, data |-> <<>>]

\* an exception leaves a before_serving function: start-up fails
Raise(exc) ==
    /\ error' = exc
    /\ phase' = "failed"

\* a before_serving function returns: the next one runs, and after the last
\* the server serves
HookReturns ==
    IF hook < Len(BeforeServing)
    THEN hook' = hook + 1 /\ phase' = phase
    ELSE hook' = 0 /\ phase' = "serving"

\* lines 59-68: read the master template and stamp its scripts
CompileRead ==
    /\ phase = "starting" /\ BeforeServing[hook] = "compile_html"
    /\ pc = "read"
    /\ LET f == Open(Join(TEMPLATES_DIR, MasterName))
       IN  IF f.ok
           THEN /\ master_template' = StampScripts(f.data)
                /\ pc' = "mkdir"
                /\ UNCHANGED <<phase, error>>
           ELSE /\ Raise("FileNotFoundError")
                /\ UNCHANGED <<master_template, pc>>
    /\ UNCHANGED <<files, dirs, todo, written, startups, hook, tasks,
                   background_tasks, response>>

\* lines 69-72: make sure COMPILED_DIR exists, then list STATIC_DIR;
\* os.makedirs creates the directory or raises OSError
CompileMkdir ==
    /\ phase = "starting" /\ BeforeServing[hook] = "compile_html"
    /\ pc = "mkdir"
    /\ IF IsDir(COMPILED_DIR)
       THEN /\ pc' = "loop"
            /\ todo' = HtmlFiles(STATIC_DIR)
            /\ UNCHANGED <<dirs, phase, error>>
       ELSE \E created \in BOOLEAN :
                IF created
                THEN /\ dirs' = dirs \cup {COMPILED_DIR}
                     /\ pc' = "loop"
                     /\ todo' = HtmlFiles(STATIC_DIR)
                     /\ UNCHANGED <<phase, error>>
                ELSE /\ Raise("OSError")
                     /\ UNCHANGED <<dirs, pc, todo>>
    /\ UNCHANGED <<files, master_template, written, startups, hook, tasks,
                   background_tasks, response>>

\* lines 72-76: one iteration of the loop, for the files in whatever order
\* os.listdir gave them
CompileFragment ==
    /\ phase = "starting" /\ BeforeServing[hook] = "compile_html"
    /\ pc = "loop"
    /\ \E htmlfile \in todo :
        LET f == Open(Join(STATIC_DIR, htmlfile))
            output == Substitute(master_template, f.data)
        IN  IF f.ok
            THEN /\ files' = WriteFile(files, Join(COMPILED_DIR, htmlfile), output)
                 /\ master_template' = TemplateAfterPage(master_template, output)
                 /\ todo' = todo \ {htmlfile}
                 /\ written' = written \cup {htmlfile}
                 /\ UNCHANGED <<phase, error>>
            ELSE /\ Raise("FileNotFoundError")
                 /\ UNCHANGED <<files, master_template, todo, written>>
    /\ UNCHANGED <<dirs, startups, hook, pc, tasks, background_tasks, response>>

\* the loop of line 72 is over: compile_html returns
CompileReturn ==
    /\ phase = "starting" /\ BeforeServing[hook] = "compile_html"
    /\ pc = "loop" /\ todo = {}
    /\ HookReturns
    /\ pc' = "read"
    /\ UNCHANGED <<files, dirs, master_template, todo, written, startups,
                   error, tasks, background_tasks, response>>

-----------------------------------------------------------------------------
(* load_endpoints: lines 78-89 *)

\* lines 85, 87, 89: the coroutines handed to add_background_task, in order
TaskHandlers ==
    <<"get_projects_from_ldap", "reset_rate_limits", "fetch_valid_lists">>

\* app.add_background_task(func): a new task, running, in app.background_tasks
NewTask(func) ==
    [handler |-> func, pass |-> startups, invocations |-> 0, failures |-> 0,
     failed |-> FALSE, running |-> TRUE, cancel_requests |-> 0]

load_endpoints ==
    /\ phase = "starting" /\ BeforeServing[hook] = "load_endpoints"
    /\ tasks' = tasks \o [n \in 1..Len(TaskHandlers) |-> NewTask(TaskHandlers[n])]
    /\ background_tasks' =
           background_tasks \cup ((Len(tasks) + 1)..(Len(tasks) + Len(TaskHandlers)))
    /\ HookReturns
    /\ UNCHANGED <<files, dirs, master_template, todo, written, startups, pc,
                   error, response>>

-----------------------------------------------------------------------------
(* static_files: lines 47-54 *)

NotFound == <<"404 Not Found">>

\* quart.send_from_directory
send_from_directory(dir, path) ==
    IF IsFile(Join(dir, path)) THEN files[Join(dir, path)] ELSE NotFound

\* the paths requested
RequestPaths == {<<"a", DotHtml>>, <<"a", DotJs>>, <<"docs", "/">>}

static_files ==
    /\ phase = "serving"
    /\ \E requested \in RequestPaths :
        LET path == IF EndsWith(requested, "/")
                    THEN requested \o <<"index", DotHtml>>
                    ELSE requested
        IN  response' = IF EndsWith(path, DotHtml)
                        THEN send_from_directory(COMPILED_DIR, path)
                        ELSE send_from_directory(STATIC_DIR, path)
    /\ UNCHANGED <<files, dirs, phase, master_template, todo, written, startups,
                   hook, pc, error, tasks, background_tasks>>

-----------------------------------------------------------------------------
(* shutdown: lines 91-95 *)

\* line 95: app.background_tasks.clear() empties the set; the tasks it held
\* are not touched
shutdown ==
    /\ phase = "serving"
    /\ background_tasks' = {}
    /\ phase' = "stopped"
    /\ UNCHANGED <<files, dirs, master_template, todo, written, startups, hook,
                   pc, error, tasks, response>>

-----------------------------------------------------------------------------
(* The hosting server *)

\* the server runs the before_serving functions: first of all compile_html
StartHooks ==
    /\ phase' = "starting"
    /\ hook' = 1
    /\ pc' = "read"
    /\ written' = {}
    /\ startups' = startups + 1
    /\ UNCHANGED <<files, dirs, master_template, todo, error, tasks,
                   background_tasks, response>>

\* the first start-up of the app
Boot ==
    /\ phase = "new"
    /\ StartHooks

\* the server starts the same app object again, with or without a
\* shutdown in between
Restart ==
    /\ phase \in {"serving", "stopped"}
    /\ startups < MaxStartups
    /\ StartHooks

-----------------------------------------------------------------------------
(* The background tasks *)

\* one iteration of a task's loop: the handler is invoked and the wrapper
\* contains its failure, so the loop goes on to the next interval
RunningAfterUncaught(running, failed) == running /\ ~failed
RunningAfter(running, failed) == running

RunHandler(i) ==
    /\ phase \in {"serving", "stopped"}
    /\ i \in 1..Len(tasks)
    /\ tasks[i].running
    /\ tasks[i].invocations < MaxInvocations
    /\ \E failed \in BOOLEAN :
        tasks' = [tasks EXCEPT ![i] =
                     [@ EXCEPT !.invocations = @ + 1,
                               !.failures = IF failed THEN @ + 1 ELSE @,
                               !.failed = failed,
                               !.running = RunningAfter(@, failed)]]
    /\ UNCHANGED <<files, dirs, phase, master_template, todo, written, startups,
                   hook, pc, error, background_tasks, response>>

-----------------------------------------------------------------------------
(* The initial states *)

\* the pieces a master template is made of
ScriptA == <<"<script ", SrcOpen, "a", DotJs, Quote, "></script>">>
ScriptB == <<"<script ", SrcOpen, "/", "b", DotJs, Quote, "></script>">>
Img == <<"<img ", SrcOpen, "logo.png", Quote, ">">>
Items == {ScriptA, ScriptB, Img, <<Newline>>, <<Placeholder>>}

\* the templates of at most n items
RECURSIVE Templates(_)
Templates(n) ==
    IF n = 0 THEN {<<>>}
    ELSE Templates(n - 1) \cup {t \o item : t \in Templates(n - 1), item \in Items}

\* the disk that holds the given <<path, content>> entries
MkFiles(entries) ==
    [p \in {e[1] : e \in entries} |-> (CHOOSE e \in entries : e[1] = p)[2]]

\* one file, present or not
Maybe(path, contents) == {{}} \cup {{<<path, c>>} : c \in contents}

FragmentA == <<"<p>", Placeholder, "</p>">>
FragmentB == <<"<b ", SrcOpen, "a", DotJs, Quote, ">">>
StalePage == <<"stale">>

InitRest ==
    /\ phase = "new"
    /\ master_template = <<>>
    /\ todo = {}
    /\ written = {}
    /\ startups = 0
    /\ hook = 0
    /\ pc = "read"
    /\ error = ""
    /\ tasks = <<>>
    /\ background_tasks = {}
    /\ response = <<>>

Init ==
    /\ \E tpl \in Maybe(Join(TEMPLATES_DIR, MasterName), Templates(MaxItems)),
          ajs \in Maybe(Join(STATIC_DIR, <<"a", DotJs>>), {<<"A">>}),
          bjs \in Maybe(Join(STATIC_DIR, <<"b", DotJs>>), {<<"B">>}),
          ahtml \in Maybe(Join(STATIC_DIR, <<"a", DotHtml>>), {FragmentA}),
          bhtml \in Maybe(Join(STATIC_DIR, <<"b", DotHtml>>), {FragmentB}),
          out \in {"absent", "empty", "stale"} :
        /\ files = MkFiles(tpl \cup ajs \cup bjs \cup ahtml \cup bhtml \cup
                     IF out = "stale"
                     THEN {<<Join(COMPILED_DIR, <<"a", DotHtml>>), StalePage>>}
                     ELSE {})
        /\ dirs = {STATIC_DIR, TEMPLATES_DIR} \cup
                     IF out = "absent" THEN {} ELSE {COMPILED_DIR}
    /\ InitRest

Next ==
    \/ Boot
    \/ Restart
    \/ CompileRead
    \/ CompileMkdir
    \/ CompileFragment
    \/ CompileReturn
    \/ load_endpoints
    \/ static_files
    \/ shutdown

\* the start-up pipeline, over repeated start-ups of one app
Spec == Init /\ [][Next]_vars

\* one template: a script, an image and the placeholder
TaskTemplate == ScriptA \o Img \o <<Placeholder>>

TaskInit ==
    /\ \E tpl \in Maybe(Join(TEMPLATES_DIR, MasterName), {TaskTemplate}),
          out \in {"absent", "empty"} :
        /\ files = MkFiles(tpl \cup
                     {<<Join(STATIC_DIR, <<"a", DotJs>>), <<"A">>>>,
                      <<Join(STATIC_DIR, <<"a", DotHtml>>), FragmentA>>})
        /\ dirs = {STATIC_DIR, TEMPLATES_DIR} \cup
                     IF out = "absent" THEN {} ELSE {COMPILED_DIR}
    /\ InitRest

TaskNext ==
    \/ Boot
    \/ CompileRead
    \/ CompileMkdir
    \/ CompileFragment
    \/ CompileReturn
    \/ load_endpoints
    \/ static_files
    \/ shutdown
    \/ \E i \in 1..Len(TaskHandlers) : RunHandler(i)

\* one life of the server, with its background tasks running
TaskSpec == TaskInit /\ [][TaskNext]_vars

\* the event loop runs every task that is ready
FairTaskSpec ==
    TaskSpec /\ \A i \in 1..Len(TaskHandlers) : WF_vars(RunHandler(i))

-----------------------------------------------------------------------------
(* What the claims speak of *)

TemplatePath == Join(TEMPLATES_DIR, MasterName)

\* the master template as it is on disk
Original == files[TemplatePath]

\* master_template holds the stamped template of the current pass
Stamped == startups > 0 /\ error = "" /\ ~(phase = "starting" /\ pc = "read")

\* the script references of a text: src="<path>.js" with no quote, line
\* break or further src=" inside the path
ScriptRefs(s) ==
    {SubSeq(s, ij[1], ij[2]) : ij \in
        {ij \in (1..Len(s)) \X (1..Len(s)) :
            /\ ij[1] + 3 <= ij[2]
            /\ s[ij[1]] = SrcOpen
            /\ s[ij[2] - 1] = DotJs
            /\ s[ij[2]] = Quote
            /\ \A k \in (ij[1] + 1)..(ij[2] - 1) :
                   s[k] \notin {SrcOpen, Quote, Newline}}}

\* the file a script reference names
Target(ref) == Join(STATIC_DIR, LStripSlash(SubSeq(ref, 2, Len(ref) - 1)))

\* where a reference occurs in a text
Occurrences(s, ref) == {i \in 1..Len(s) : StartsWithAt(s, i, ref)}

\* the number of integrity attributes that follow one another from p on
RECURSIVE IntegrityCount(_, _)
IntegrityCount(s, p) ==
    IF p + 2 <= Len(s) /\ s[p] = IntegrityOpen /\ s[p + 2] = Quote
    THEN 1 + IntegrityCount(s, p + 3)
    ELSE 0

\* every src=" of the text opens a script reference
OnlyScriptSrc(s) ==
    \A i \in 1..Len(s) :
        s[i] = SrcOpen => \E ref \in ScriptRefs(s) : StartsWithAt(s, i, ref)

\* the text without its integrity attributes
RECURSIVE StripIntegrity(_)
StripIntegrity(s) ==
    IF s = <<>> THEN <<>>
    ELSE IF IntegrityCount(s, 1) > 0 THEN StripIntegrity(SubSeq(s, 4, Len(s)))
    ELSE <<s[1]>> \o StripIntegrity(Tail(s))

\* the template with each placeholder atom giving way to the body
RECURSIVE Splice(_, _)
Splice(template, body) ==
    IF template = <<>> THEN <<>>
    ELSE (IF template[1] = Placeholder THEN body ELSE <<template[1]>>)
             \o Splice(Tail(template), body)

\* the names of the .html files in the static-asset root
StaticHtmlNames ==
    {BaseOf(p) : p \in {q \in DOMAIN files :
                           DirOf(q) = STATIC_DIR /\ BaseOf(q)[Len(BaseOf(q))] = DotHtml}}

\* the files of the compiled-output directory, with their contents
CompiledOutput ==
    [p \in {q \in DOMAIN files : DirOf(q) = COMPILED_DIR} |-> files[p]]

\* the tasks started in the current start-up pass
InCurrentPass(task) == task.pass = startups
CurrentTasks == SelectSeq(tasks, InCurrentPass)

\* compile_html has returned in the current pass
CompileReturned ==
    \/ phase \in {"serving", "stopped"}
    \/ phase = "starting" /\ BeforeServing[hook] # "compile_html"

AHtml == <<"a", DotHtml>>
BHtml == <<"b", DotHtml>>

-----------------------------------------------------------------------------
(* The claims *)

\* C1: in a template whose src attributes are all script references, every
\* occurrence of a reference to an existing file is followed, once the
\* template is stamped, by exactly one integrity attribute, which carries
\* the token of the file.
C1_StampedExactlyOnce ==
    (Stamped /\ OnlyScriptSrc(Original)) =>
        \A ref \in ScriptRefs(Original) :
            IsFile(Target(ref)) =>
                \A p \in Occurrences(master_template, ref) :
                    /\ IntegrityCount(master_template, p + Len(ref)) = 1
                    /\ master_template[p + Len(ref) + 1] = file_to_sri(Target(ref))

\* C2: once the template is stamped, a script reference is followed by an
\* integrity attribute if and only if its file exists, whatever else the
\* template holds, and apart from the integrity attributes the template is
\* as it was read.
C2_StampedIffExists ==
    Stamped =>
        /\ \A ref \in ScriptRefs(Original) :
              \A p \in Occurrences(master_template, ref) :
                  IntegrityCount(master_template, p + Len(ref)) >= 1
                      <=> IsFile(Target(ref))
        /\ StripIntegrity(master_template) = Original

\* C3: in a second or later pass no step changes the compiled-output
\* directory: the pass leaves the files and contents the first pass left.
C3_Idempotent == [][startups >= 2 => CompiledOutput' = CompiledOutput]_vars

C3_Witness == startups = 2 /\ phase = "serving" /\ Cardinality(written) = 2

\* C4: every page written in a pass is the stamped master template with
\* its placeholder replaced by the content of its own fragment, whatever
\* other fragments were compiled before it.
C4_FragmentIsolation ==
    \A f \in written :
        files[Join(COMPILED_DIR, f)] =
            Splice(StampScripts(Original), files[Join(STATIC_DIR, f)])

C4_Witness ==
    /\ written = {AHtml, BHtml}
    /\ \E i \in 1..Len(Original) : Original[i] = Placeholder
    /\ files[Join(COMPILED_DIR, AHtml)] # files[Join(COMPILED_DIR, BHtml)]

\* C5: once the shutdown hook has returned, cancellation has been requested
\* exactly once of every task that was started, and none of them runs on.
C5_ShutdownCompleteness ==
    phase = "stopped" =>
        \A i \in 1..Len(tasks) :
            tasks[i].cancel_requests = 1 /\ ~tasks[i].running

\* C6: a task that is not cancelled and whose n-th invocation failed is
\* invoked an (n+1)-th time, and no step stops a running task.
C6_TaskResilience ==
    /\ \A i \in 1..Len(TaskHandlers) : \A n \in 1..(MaxInvocations - 1) :
           (/\ Len(tasks) >= i
            /\ tasks[i].invocations = n
            /\ tasks[i].failed
            /\ tasks[i].cancel_requests = 0)
               ~> (Len(tasks) >= i /\ tasks[i].invocations = n + 1)
    /\ [][\A i \in 1..Len(tasks) :
              (tasks[i].running /\ tasks[i].cancel_requests = 0)
                  => tasks'[i].running]_vars

C6_Witness ==
    \E i \in 1..Len(tasks) :
        /\ tasks[i].invocations = 3
        /\ tasks[i].failures = 2
        /\ ~tasks[i].failed
        /\ \E j \in 1..Len(tasks) : j # i /\ tasks[j].failed

\* C7: a second start-up is rejected with a LifecycleError and leaves the
\* running tasks as they were: no handler has two running tasks.
C7_LifecycleGuard ==
    startups >= 2 =>
        /\ \A i, j \in 1..Len(tasks) :
              (i # j /\ tasks[i].running /\ tasks[j].running)
                  => tasks[i].handler # tasks[j].handler
        /\ phase # "starting" => error = "LifecycleError"

\* C8: with the master template missing, or with the compiled-output
\* directory absent and not created, the pass ends in a fatal error: no page
\* is written in it, no task is started in it and the server does not serve.
C8_FailClosed ==
    /\ ~IsFile(TemplatePath) =>
           /\ phase \in {"new", "starting", "failed"}
           /\ phase = "starting" => pc = "read"
           /\ written = {}
           /\ tasks = <<>>
    /\ error # "" =>
           /\ phase = "failed"
           /\ written = {}
           /\ CurrentTasks = <<>>

C8_Witness == error = "OSError" /\ IsFile(TemplatePath) /\ StaticHtmlNames # {}

\* C9: tasks are started in a pass only after compile_html has written
\* every page of that pass; while the server serves, the tasks of the pass
\* are the three handlers, once each, in the order of registration; and no
\* request is answered before the tasks are started.
C9_StartupOrdering ==
    /\ CurrentTasks # <<>> =>
           /\ written = StaticHtmlNames
           /\ \A f \in written : IsFile(Join(COMPILED_DIR, f))
           /\ [n \in 1..Len(CurrentTasks) |-> CurrentTasks[n].handler] =
                  <<"get_projects_from_ldap", "reset_rate_limits", "fetch_valid_lists">>
    /\ phase = "serving" => Len(CurrentTasks) = 3
    /\ response # <<>> => Len(tasks) >= 3

C9_Witness ==
    /\ phase = "serving"
    /\ Cardinality(written) = 2
    /\ Len(CurrentTasks) = 3
    /\ response # <<>>

\* C10: after compile_html has returned, the pages written in the pass are
\* those of the .html files of the static-asset root, one each and under
\* the same name, and each holds the page of its fragment as it is now.
C10_ExactlyFragments ==
    (startups > 0 /\ error = "" /\ CompileReturned) =>
        /\ written = StaticHtmlNames
        /\ MasterName \notin written
        /\ \A f \in written :
              /\ IsFile(Join(COMPILED_DIR, f))
              /\ files[Join(COMPILED_DIR, f)] =
                     Substitute(StampScripts(Original), files[Join(STATIC_DIR, f)])

C10_Witness ==
    /\ phase = "serving"
    /\ written = {AHtml}
    /\ IsFile(Join(STATIC_DIR, <<"a", DotJs>>))
    /\ files[Join(COMPILED_DIR, AHtml)] # StalePage

====
